---- MODULE Spec2Model ----
(***************************************************************************)
(* A model of pai_tts.py: the command-line build (main, build_audio,       *)
(* make_index, build_all_questionnaires, serve), the reading of the input  *)
(* file into the item list, and the player script of HTML_TEMPLATE.        *)
(*                                                                         *)
(* Strings are sequences of one-character strings.  The site directory is  *)
(* modelled by the files the program reads and writes in it.  The TTS      *)
(* provider is taken to return: a synthesis call writes the audio of the   *)
(* text it was given, in the voice it was given.                           *)
(***************************************************************************)
EXTENDS Naturals, Sequences, FiniteSets

VARIABLES
    \* ---- the file system under the working directory
    siteDir,      \* tts_site/ exists
    audioDirs,    \* the page directories whose audio/ directory exists
    audioFiles,   \* page directory -> [file name -> the audio it holds]
    pages,        \* page directory -> the item list of its index.html, if it exists
    selection,    \* the links of tts_site/selection.html, if it exists
    \* ---- one run of main
    pc,           \* where the run is
    args,         \* the parsed command line
    env,          \* the input files the run finds
    items,        \* the item list being built
    outdir,       \* the page directory being built
    i,            \* build_audio's loop index
    todo,         \* the questionnaire files build_all has still to build
    cards,        \* questionnaire_cards
    synthLog,     \* the <<page directory, file name>> synthesize was called for in this run
    pageLog,      \* the page directories make_index wrote in this run
    server,       \* the port and URL serve started with, if it did
    error,        \* the message the run exited with, or NoFile
    built,        \* page directory -> the list build_audio last went through there, if any
    before,       \* the file system (and built) when the run started
    runs,         \* the runs started so far
    \* ---- reading one input file into a page
    pfile, ppc, pitems, ppage,
    \* ---- the player of one generated page
    jsItems,      \* const items
    idx, isPlaying, prevDisabled, nextDisabled,
    media,        \* the Audio element: its src and whether playback is started
    playQueued,   \* a 'play' event is queued and not yet dispatched
    loaded,       \* window.onload has fired
    lastRead,     \* the index playItem last read items[] at, if it has
    restarted     \* a replay has restarted audio that was being played

cliVars    == <<siteDir, audioDirs, audioFiles, pages, selection, pc, args, env, items,
                outdir, i, todo, cards, synthLog, pageLog, server, error, built, before, runs>>
parseVars  == <<pfile, ppc, pitems, ppage>>
playerVars == <<jsItems, idx, isPlaying, prevDisabled, nextDisabled, media, playQueued,
                loaded, lastRead, restarted>>
vars       == <<cliVars, parseVars, playerVars>>

NoFile == "NoFile"

\* A file, a page or a result that may be missing: Absent, or Present(x).
Absent == <<>>
Present(x) == <<x>>
Get(o) == o[1]

-----------------------------------------------------------------------------
(* Text: Path.read_text, str.splitlines, str.strip, json.dumps.            *)

LF == "\n"
SP == " "
QUOTE == "\""
BACKSLASH == "\\"

\* The characters str.strip() removes (of those the model draws from).
Whitespace == {SP, LF, "\t"}

RECURSIVE FirstBreak(_, _)
\* The position of the first line break of s at or after k, Len(s)+1 if none.
FirstBreak(s, k) ==
    IF k > Len(s) THEN k
    ELSE IF s[k] = LF THEN k ELSE FirstBreak(s, k + 1)

RECURSIVE SplitLines(_)
\* str.splitlines(): the lines of s without their breaks; a final break
\* starts no further line.
SplitLines(s) ==
    IF s = <<>> THEN <<>>
    ELSE LET k == FirstBreak(s, 1)
         IN  <<SubSeq(s, 1, k - 1)>> \o SplitLines(SubSeq(s, k + 1, Len(s)))

RECURSIVE LStrip(_)
LStrip(s) ==
    IF s # <<>> /\ s[1] \in Whitespace THEN LStrip(Tail(s)) ELSE s

RECURSIVE RStrip(_)
RStrip(s) ==
    IF s # <<>> /\ s[Len(s)] \in Whitespace THEN RStrip(SubSeq(s, 1, Len(s) - 1)) ELSE s

\* A plausible slip: only the leading whitespace is removed.
StripLeadingOnly(s) == LStrip(s)

\* str.strip()
Strip(s) == RStrip(LStrip(s))

RECURSIVE KeepStripped(_)
\* [line.strip() for line in lines if line.strip()]
KeepStripped(lines) ==
    IF lines = <<>> THEN <<>>
    ELSE LET t == Strip(Head(lines))
         IN  (IF t # <<>> THEN <<t>> ELSE <<>>) \o KeepStripped(Tail(lines))

\* The item list main and build_all_questionnaires read from a file's text.
ReadItems(text) == KeepStripped(SplitLines(text))

RECURSIVE JsonEscape(_)
\* json.dumps of a string, between its quotes: a quote and a backslash are
\* escaped by a backslash, a line break and a tab are written \n and \t.
JsonEscape(s) ==
    IF s = <<>> THEN <<>>
    ELSE LET c == Head(s)
         IN  (CASE c = QUOTE     -> <<BACKSLASH, QUOTE>>
                [] c = BACKSLASH -> <<BACKSLASH, BACKSLASH>>
                [] c = LF        -> <<BACKSLASH, "n">>
                [] c = "\t"      -> <<BACKSLASH, "t">>
                [] OTHER         -> <<c>>) \o JsonEscape(Tail(s))

\* json.dumps(str, ensure_ascii=False)
JsonString(s) == <<QUOTE>> \o JsonEscape(s) \o <<QUOTE>>

RECURSIVE JsUnescape(_)
\* The string a JavaScript string literal's characters denote.
JsUnescape(s) ==
    IF s = <<>> THEN <<>>
    ELSE IF Head(s) = BACKSLASH /\ Len(s) >= 2
         THEN LET c == s[2]
              IN  <<(CASE c = "n" -> LF [] c = "t" -> "\t" [] OTHER -> c)>>
                      \o JsUnescape(SubSeq(s, 3, Len(s)))
         ELSE <<Head(s)>> \o JsUnescape(Tail(s))

\* The value of the string literal lit, as the page's script evaluates it.
JsStringValue(lit) == JsUnescape(SubSeq(lit, 2, Len(lit) - 1))

-----------------------------------------------------------------------------
(* File names: f"{idx:04d}.mp3" and f"audio/{idx:04d}.mp3".                *)

Digit(d) == CASE d = 0 -> "0" [] d = 1 -> "1" [] d = 2 -> "2" [] d = 3 -> "3"
              [] d = 4 -> "4" [] d = 5 -> "5" [] d = 6 -> "6" [] d = 7 -> "7"
              [] d = 8 -> "8" [] d = 9 -> "9"

RECURSIVE Decimal(_)
Decimal(n) == IF n < 10 THEN <<Digit(n)>> ELSE Decimal(n \div 10) \o <<Digit(n % 10)>>

RECURSIVE ZeroPad(_, _)
ZeroPad(s, w) == IF Len(s) >= w THEN s ELSE ZeroPad(<<"0">> \o s, w)

\* The format width of {idx:04d}.
PadWidth == 4

\* f"{idx:04d}"
Fmt04(n) == ZeroPad(Decimal(n), PadWidth)

MP3 == <<".", "m", "p", "3">>
AUDIO == <<"a", "u", "d", "i", "o">>

\* build_audio: the file name of item idx (from 0) in the audio directory.
Mp3Name(n) == Fmt04(n) \o MP3

\* A plausible slip: the page counts the items from 1.
AudioRefFromOne(n) == AUDIO \o <<"/">> \o Fmt04(n + 1) \o MP3

\* make_index: the path entry idx (from 0) of the page refers to.
AudioRef(n) == AUDIO \o <<"/">> \o Fmt04(n) \o MP3

\* The file a page's reference ref names in the page's own directory: the
\* name under audio/, or the empty name when ref does not lead into audio/.
Resolve(ref) ==
    IF Len(ref) > Len(AUDIO) + 1 /\ SubSeq(ref, 1, Len(AUDIO) + 1) = AUDIO \o <<"/">>
    THEN SubSeq(ref, Len(AUDIO) + 2, Len(ref))
    ELSE <<>>

\* make_index: the list it passes to json.dumps, the texts as JSON writes them.
Mapping(its) ==
    [k \in 1..Len(its) |-> [text |-> JsonString(its[k]), audio |-> AudioRef(k - 1)]]

\* The list the page's script holds in items.
PageItems(page) ==
    [k \in 1..Len(page) |-> [text |-> JsStringValue(page[k].text), audio |-> page[k].audio]]

-----------------------------------------------------------------------------
(* The command line and the files a run finds.                             *)

\* The runs a behaviour starts.
MaxRuns == 2

BuildVoices == {"en-US-JennyNeural", "en-US-GuyNeural"}
Ports == {8000, 8080}

\* args.items_file: the path given, or NoFile when none is.
ItemsPaths == {NoFile, "items.txt"}

ArgSets ==
    [items_file : ItemsPaths, voice : BuildVoices, serve_only : BOOLEAN,
     force : BOOLEAN, port : Ports, build_all : BOOLEAN]

\* The texts an input file may hold.
TextAB == <<"a", LF, "b">>
TextB == <<SP, "b", SP, LF>>
TextBlank == <<SP, LF>>
InputTexts == {TextAB, TextB, TextBlank}

\* The items main uses when no items_file is given; each sentence is written
\* as one symbol.
DefaultItems ==
    << <<"Please state your full name.">>,
       <<"On a scale from one to ten, how would you rate your current mood?">>,
       <<"Have you experienced any headaches in the past week?">> >>

\* The stems of the files questionnaires/*.txt may hold.
QNames == {"q1", "q2"}
QTexts == {TextB}

\* questionnaires/, if it exists: stem -> the text of <stem>.txt.
QDirs == {Absent} \cup {Present(f) : f \in UNION {[S -> QTexts] : S \in SUBSET QNames}}

\* What the path given as items_file holds, if it exists.
InputFiles == {Absent} \cup {Present(t) : t \in InputTexts}

\* The directories a page is written in: tts_site itself and tts_site/<stem>.
ProjectDir == "."
Dirs == {ProjectDir} \cup QNames

EmptyDir == [n \in {} |-> NoFile]

WriteFile(dir, name, content) ==
    [n \in DOMAIN dir \cup {name} |-> IF n = name THEN content ELSE dir[n]]

Exists(d, name) == name \in DOMAIN audioFiles[d]

\* What a run can change and what a claim compares a run's end with.
Snapshot ==
    [siteDir |-> siteDir, audioDirs |-> audioDirs, audioFiles |-> audioFiles,
     pages |-> pages, selection |-> selection, built |-> built]

Ended == {"failed", "serving", "stopped"}

ErrItems == "items_file not found"
ErrNoQDir == "questionnaires/ directory not found"
ErrNoQFiles == "No questionnaire files found in questionnaires/ directory"
ErrNoSite == "No site built yet; run without --serve-only first."
ErrTemplate == "FileNotFoundError: selection_template.html"

NoArgs ==
    [items_file |-> NoFile, voice |-> "en-US-JennyNeural", serve_only |-> FALSE,
     force |-> FALSE, port |-> 8000, build_all |-> FALSE]
\* What the run found where it looked: "unread" until it looks.
NoEnv == [input |-> "unread", qdir |-> "unread", template |-> "unread"]

InitCli ==
    /\ siteDir = FALSE
    /\ audioDirs = {}
    /\ audioFiles = [d \in Dirs |-> EmptyDir]
    /\ pages = [d \in Dirs |-> Absent]
    /\ selection = Absent
    /\ pc = "idle"
    /\ args = NoArgs
    /\ env = NoEnv
    /\ items = <<>>
    /\ outdir = ProjectDir
    /\ i = 0
    /\ todo = EmptyDir
    /\ cards = <<>>
    /\ synthLog = {}
    /\ pageLog = {}
    /\ server = Absent
    /\ error = NoFile
    /\ built = [d \in Dirs |-> Absent]
    /\ before = [siteDir |-> FALSE, audioDirs |-> {}, audioFiles |-> [d \in Dirs |-> EmptyDir],
                 pages |-> [d \in Dirs |-> Absent], selection |-> Absent,
                 built |-> [d \in Dirs |-> Absent]]
    /\ runs = 0

fsVars == <<siteDir, audioDirs, audioFiles, pages, selection>>

\* sys.exit(msg)
Exit(msg) == pc' = "failed" /\ error' = msg

-----------------------------------------------------------------------------
(* main, lines 242-276.                                                    *)

\* The command line is parsed and a run starts.
Start(a) ==
    /\ pc \in {"idle"} \cup Ended
    /\ runs < MaxRuns
    /\ runs' = runs + 1
    /\ args' = a
    /\ env' = NoEnv
    /\ before' = Snapshot
    /\ pc' = "main"
    /\ items' = <<>> /\ outdir' = ProjectDir /\ i' = 0 /\ todo' = EmptyDir /\ cards' = <<>>
    /\ synthLog' = {} /\ pageLog' = {} /\ server' = Absent /\ error' = NoFile
    /\ UNCHANGED <<fsVars, built>>
    /\ UNCHANGED <<parseVars, playerVars>>

\* Lines 258-261: the items of the file, or FileNotFoundError.
ReadOrFail(content) ==
    IF content = Absent THEN [found |-> FALSE, items |-> <<>>]
    ELSE [found |-> TRUE, items |-> ReadItems(Get(content))]

\* if args.build_all: await build_all_questionnaires(...)
MainBuildAll ==
    /\ pc = "main"
    /\ args.build_all
    /\ pc' = "build_all"
    /\ UNCHANGED <<fsVars, args, env, items, outdir, i, todo, cards, synthLog, pageLog,
                   server, error, built, before, runs>>
    /\ UNCHANGED <<parseVars, playerVars>>

\* elif not args.serve_only, with an items_file: the file is read; when it
\* is there, tts_site is made and build_audio entered.
MainReadItems ==
    /\ pc = "main"
    /\ ~args.build_all /\ ~args.serve_only
    /\ args.items_file # NoFile
    /\ \E content \in InputFiles :
         LET r == ReadOrFail(content) IN
         /\ env' = [env EXCEPT !.input = IF content = Absent THEN "missing" ELSE "found"]
         /\ IF r.found
            THEN /\ items' = r.items
                 /\ siteDir' = TRUE
                 /\ outdir' = ProjectDir
                 /\ pc' = "build_audio"
                 /\ error' = error
            ELSE /\ Exit(ErrItems)
                 /\ UNCHANGED <<items, siteDir, outdir>>
    /\ UNCHANGED <<audioDirs, audioFiles, pages, selection, args, i, todo, cards, synthLog,
                   pageLog, server, built, before, runs>>
    /\ UNCHANGED <<parseVars, playerVars>>

\* elif not args.serve_only, with no items_file: the built-in items.
MainDefaultItems ==
    /\ pc = "main"
    /\ ~args.build_all /\ ~args.serve_only
    /\ args.items_file = NoFile
    /\ items' = DefaultItems
    /\ siteDir' = TRUE
    /\ outdir' = ProjectDir
    /\ pc' = "build_audio"
    /\ UNCHANGED <<audioDirs, audioFiles, pages, selection, args, env, i, todo, cards,
                   synthLog, pageLog, server, error, built, before, runs>>
    /\ UNCHANGED <<parseVars, playerVars>>

\* --serve-only without --build-all: nothing is built.
MainServeOnly ==
    /\ pc = "main"
    /\ ~args.build_all /\ args.serve_only
    /\ pc' = "check"
    /\ UNCHANGED <<fsVars, args, env, items, outdir, i, todo, cards, synthLog, pageLog,
                   server, error, built, before, runs>>
    /\ UNCHANGED <<parseVars, playerVars>>

-----------------------------------------------------------------------------
(* build_audio, lines 156-161, and synthesize, lines 151-154.              *)

\* outdir.mkdir(parents=True, exist_ok=True)
BuildAudioMkdir ==
    /\ pc = "build_audio"
    /\ siteDir' = TRUE
    /\ audioDirs' = audioDirs \cup {outdir}
    /\ i' = 0
    /\ pc' = "build_loop"
    /\ UNCHANGED <<audioFiles, pages, selection, args, env, items, outdir, todo, cards,
                   synthLog, pageLog, server, error, built, before, runs>>
    /\ UNCHANGED <<parseVars, playerVars>>

\* Plausible slips: every file is synthesized again; --force is ignored.
SynthesizeAlways(force, exists) == TRUE
SynthesizeIfMissing(force, exists) == ~exists

\* if force or not mp3_path.exists()
NeedsSynthesis(force, exists) == force \/ ~exists

\* A plausible slip: the voice asked for is not passed on, the default is used.
AudioInDefaultVoice(text, voice) == [text |-> text, voice |-> "en-US-JennyNeural"]

\* What synthesize leaves in outfile: the audio of text in voice.
Audio(text, voice) == [text |-> text, voice |-> voice]

\* One turn of the loop, for item i.
BuildAudioItem ==
    /\ pc = "build_loop"
    /\ i < Len(items)
    /\ LET name == Mp3Name(i) IN
       IF NeedsSynthesis(args.force, Exists(outdir, name))
       THEN /\ audioFiles' = [audioFiles EXCEPT
                   ![outdir] = WriteFile(@, name, Audio(items[i + 1], args.voice))]
            /\ synthLog' = synthLog \cup {<<outdir, name>>}
       ELSE UNCHANGED <<audioFiles, synthLog>>
    /\ i' = i + 1
    /\ UNCHANGED <<siteDir, audioDirs, pages, selection, pc, args, env, items, outdir, todo,
                   cards, pageLog, server, error, built, before, runs>>
    /\ UNCHANGED <<parseVars, playerVars>>

\* The loop ends and build_audio returns.
BuildAudioDone ==
    /\ pc = "build_loop"
    /\ i = Len(items)
    /\ built' = [built EXCEPT ![outdir] = Present(items)]
    /\ pc' = "make_index"
    /\ UNCHANGED <<fsVars, args, env, items, outdir, i, todo, cards, synthLog, pageLog,
                   server, error, before, runs>>
    /\ UNCHANGED <<parseVars, playerVars>>

-----------------------------------------------------------------------------
(* make_index, lines 166-172, and what its caller does next.               *)

\* data-link="{questionnaire_name}/index.html"
CardLink(q) == <<q, "index.html">>

MakeIndex ==
    /\ pc = "make_index"
    /\ pages' = [pages EXCEPT ![outdir] = Present(Mapping(items))]
    /\ pageLog' = pageLog \cup {outdir}
    /\ IF args.build_all
       THEN /\ cards' = Append(cards, CardLink(outdir))
            /\ pc' = "build_all_loop"
       ELSE /\ cards' = cards
            /\ pc' = "check"
    /\ UNCHANGED <<siteDir, audioDirs, audioFiles, selection, args, env, items, outdir, i,
                   todo, synthLog, server, error, built, before, runs>>
    /\ UNCHANGED <<parseVars, playerVars>>

-----------------------------------------------------------------------------
(* build_all_questionnaires, lines 189-237.                                *)

\* Lines 191-201: questionnaires/ is looked up, tts_site made, *.txt listed.
BuildAllEnter ==
    /\ pc = "build_all"
    /\ \E q \in QDirs :
         /\ env' = [env EXCEPT !.qdir = IF q = Absent THEN "missing"
                                         ELSE IF DOMAIN Get(q) = {} THEN "empty" ELSE "found"]
         /\ IF q = Absent
            THEN /\ Exit(ErrNoQDir)
                 /\ UNCHANGED <<siteDir, todo>>
            ELSE /\ siteDir' = TRUE
                 /\ IF DOMAIN Get(q) = {}
                    THEN /\ Exit(ErrNoQFiles)
                         /\ todo' = todo
                    ELSE /\ todo' = Get(q)
                         /\ pc' = "build_all_loop"
                         /\ error' = error
    /\ cards' = <<>>
    /\ UNCHANGED <<audioDirs, audioFiles, pages, selection, args, items, outdir, i,
                   synthLog, pageLog, server, built, before, runs>>
    /\ UNCHANGED <<parseVars, playerVars>>

\* Lines 203-212: the next file, in the order glob gives them, is read.
BuildAllNext ==
    /\ pc = "build_all_loop"
    /\ DOMAIN todo # {}
    /\ \E q \in DOMAIN todo :
         /\ outdir' = q
         /\ items' = ReadItems(todo[q])
         /\ todo' = [n \in DOMAIN todo \ {q} |-> todo[n]]
    /\ pc' = "build_audio"
    /\ UNCHANGED <<fsVars, args, env, i, cards, synthLog, pageLog, server, error, built,
                   before, runs>>
    /\ UNCHANGED <<parseVars, playerVars>>

\* Lines 231-237: selection_template.html is read and selection.html written.
BuildAllSelection ==
    /\ pc = "build_all_loop"
    /\ DOMAIN todo = {}
    /\ \E found \in BOOLEAN :
         /\ env' = [env EXCEPT !.template = IF found THEN "found" ELSE "missing"]
         /\ IF found
            THEN /\ selection' = Present(cards)
                 /\ pc' = "check"
                 /\ error' = error
            ELSE /\ Exit(ErrTemplate)
                 /\ selection' = selection
    /\ UNCHANGED <<siteDir, audioDirs, audioFiles, pages, args, items, outdir, i, todo,
                   cards, synthLog, pageLog, server, built, before, runs>>
    /\ UNCHANGED <<parseVars, playerVars>>

-----------------------------------------------------------------------------
(* The end of main, lines 273-276, and serve, lines 178-187.               *)

\* if not (project_dir / "index.html").exists(): sys.exit(...)
CheckSite ==
    /\ pc = "check"
    /\ IF pages[ProjectDir] = Absent
       THEN Exit(ErrNoSite)
       ELSE pc' = "serve" /\ error' = error
    /\ UNCHANGED <<fsVars, args, env, items, outdir, i, todo, cards, synthLog, pageLog,
                   server, built, before, runs>>
    /\ UNCHANGED <<parseVars, playerVars>>

\* url = f"http://localhost:{port}/selection.html"
ServeUrl(port) == [port |-> port, path |-> "selection.html"]

\* The server is bound to the port and the browser opened on the URL.
Serve ==
    /\ pc = "serve"
    /\ server' = Present([port |-> args.port, url |-> ServeUrl(args.port)])
    /\ pc' = "serving"
    /\ UNCHANGED <<fsVars, args, env, items, outdir, i, todo, cards, synthLog, pageLog,
                   error, built, before, runs>>
    /\ UNCHANGED <<parseVars, playerVars>>

\* KeyboardInterrupt: serve_forever returns and the run ends.
ServerStopped ==
    /\ pc = "serving"
    /\ pc' = "stopped"
    /\ UNCHANGED <<fsVars, args, env, items, outdir, i, todo, cards, synthLog, pageLog,
                   server, error, built, before, runs>>
    /\ UNCHANGED <<parseVars, playerVars>>

Next ==
    \/ \E a \in ArgSets : Start(a)
    \/ MainBuildAll
    \/ MainReadItems
    \/ MainDefaultItems
    \/ MainServeOnly
    \/ BuildAudioMkdir
    \/ BuildAudioItem
    \/ BuildAudioDone
    \/ MakeIndex
    \/ BuildAllEnter
    \/ BuildAllNext
    \/ BuildAllSelection
    \/ CheckSite
    \/ Serve
    \/ ServerStopped


-----------------------------------------------------------------------------
(* Reading one input file into the list the page's script holds: lines 259 *)
(* and 209 (the same expression), make_index, and line 82 of the page.     *)

\* The length of the input files drawn.
MaxFileLen == 4

Alphabet == {"a", SP, "\t", LF, QUOTE, BACKSLASH}

RECURSIVE TextsUpTo(_)
TextsUpTo(n) ==
    IF n = 0 THEN {<<>>}
    ELSE LET shorter == TextsUpTo(n - 1)
         IN  shorter \cup {Append(t, c) : t \in {u \in shorter : Len(u) = n - 1}, c \in Alphabet}

PlayerOff ==
    /\ jsItems = <<>> /\ idx = 0 /\ isPlaying = FALSE /\ prevDisabled = FALSE
    /\ nextDisabled = FALSE /\ media = [src |-> <<>>, state |-> "idle"]
    /\ playQueued = FALSE /\ loaded = FALSE /\ lastRead = Absent /\ restarted = FALSE

ParseOff == pfile = <<>> /\ ppc = "off" /\ pitems = <<>> /\ ppage = <<>>

InitParse ==
    /\ pfile \in TextsUpTo(MaxFileLen)
    /\ ppc = "read"
    /\ pitems = <<>>
    /\ ppage = <<>>

\* items = [line.strip() for line in ....read_text().splitlines() if line.strip()]
ParseRead ==
    /\ ppc = "read"
    /\ pitems' = ReadItems(pfile)
    /\ ppc' = "render"
    /\ UNCHANGED <<pfile, ppage, cliVars, playerVars>>

\* make_index(items, ...): the list is rendered into the page.
ParseRender ==
    /\ ppc = "render"
    /\ ppage' = Mapping(pitems)
    /\ ppc' = "written"
    /\ UNCHANGED <<pfile, pitems, cliVars, playerVars>>

\* const items = {{ items_json | safe }}: the script evaluates the list.
ParseLoad ==
    /\ ppc = "written"
    /\ jsItems' = PageItems(ppage)
    /\ ppc' = "loaded"
    /\ UNCHANGED <<pfile, pitems, ppage, cliVars, idx, isPlaying, prevDisabled, nextDisabled,
                   media, playQueued, loaded, lastRead, restarted>>

NextParse == ParseRead \/ ParseRender \/ ParseLoad

-----------------------------------------------------------------------------
(* The player: the script of HTML_TEMPLATE, lines 82-140.  idx counts from *)
(* 0 as in the script, so items[idx] is jsItems[idx + 1].  The Audio       *)
(* element is "started" from a play() that is allowed until its ended,     *)
(* pause or error event; its 'play' event is queued by play() and          *)
(* dispatched later, before the events that follow it.  Clicks and keys    *)
(* reach the page once it is loaded.                                       *)

\* The length of the item lists drawn.
MaxItems == 6

ItemListsUpTo(n) == {[k \in 1..m |-> <<"a">>] : m \in 0..n}

InitPlayer ==
    /\ jsItems \in {PageItems(Mapping(its)) : its \in ItemListsUpTo(MaxItems)}
    /\ idx = 0
    /\ isPlaying = FALSE
    /\ prevDisabled = FALSE
    /\ nextDisabled = FALSE
    /\ media = [src |-> <<>>, state |-> "idle"]
    /\ playQueued = FALSE
    /\ loaded = FALSE
    /\ lastRead = Absent
    /\ restarted = FALSE

\* updateButtons(), with the values idx and isPlaying have when it runs.
UpdateButtons(ix, playing) ==
    /\ prevDisabled' = (ix = 0 \/ playing)
    /\ nextDisabled' = (ix + 1 = Len(jsItems) \/ playing)

\* audio.play() on the element with source src: when the browser allows it,
\* a 'play' event is queued and, if there is a source, playback starts; when
\* it does not (autoplay without a user gesture), nothing starts.
AudioPlay(src, allowed) ==
    IF allowed
    THEN /\ media' = [src |-> src, state |-> IF src # <<>> THEN "started" ELSE "idle"]
         /\ playQueued' = TRUE
    ELSE /\ media' = [src |-> src, state |-> "idle"]
         /\ playQueued' = FALSE

\* playItem() with idx = ix.  items[ix] is read; past the end of the list it
\* is undefined and the read of its .text throws, which ends the handler.
PlayItem(ix, allowed) ==
    /\ lastRead' = Present(ix)
    /\ IF ix < Len(jsItems)
       THEN /\ UpdateButtons(ix, isPlaying)
            /\ AudioPlay(jsItems[ix + 1].audio, allowed)
       ELSE UNCHANGED <<prevDisabled, nextDisabled, media, playQueued>>

\* window.onload = playItem
OnLoad ==
    /\ ~loaded
    /\ loaded' = TRUE
    /\ \E allowed \in BOOLEAN : PlayItem(idx, allowed)
    /\ UNCHANGED <<jsItems, idx, isPlaying, restarted, cliVars, parseVars>>

\* prevBtn's click listener: if(idx>0 && !isPlaying){ idx--; playItem(); }
PrevHandler ==
    /\ idx > 0 /\ ~isPlaying
    /\ idx' = idx - 1
    /\ PlayItem(idx - 1, TRUE)
    /\ UNCHANGED <<jsItems, isPlaying, loaded, restarted, cliVars, parseVars>>

\* nextBtn's click listener: if(idx<items.length-1 && !isPlaying){ idx++; playItem(); }
NextHandler ==
    /\ idx + 1 < Len(jsItems) /\ ~isPlaying
    /\ idx' = idx + 1
    /\ PlayItem(idx + 1, TRUE)
    /\ UNCHANGED <<jsItems, isPlaying, loaded, restarted, cliVars, parseVars>>

\* audio.currentTime = 0; audio.play(): audio that is being played starts
\* again from its beginning.
Replay ==
    /\ restarted' = (restarted \/ media.state = "started")
    /\ AudioPlay(media.src, TRUE)
    /\ UNCHANGED <<jsItems, idx, isPlaying, prevDisabled, nextDisabled, loaded, lastRead,
                   cliVars, parseVars>>

\* A click on a button of the loaded page: a disabled button gets no click
\* event.
ClickPrev == loaded /\ ~prevDisabled /\ PrevHandler
ClickNext == loaded /\ ~nextDisabled /\ NextHandler
\* replayBtn's click listener: if(!isPlaying){ audio.currentTime = 0; audio.play(); }
ClickReplay == loaded /\ ~isPlaying /\ Replay

\* The keydown listener: case 'ArrowLeft': if(!isPlaying) prevBtn.click();
KeyArrowLeft == ~isPlaying /\ ClickPrev
\* case 'ArrowRight': if(!isPlaying) nextBtn.click();
KeyArrowRight == ~isPlaying /\ ClickNext
\* case ' ', 'r', 'R': if(!isPlaying) replayBtn.click();
KeyReplay == ~isPlaying /\ ClickReplay

\* The 'play' listener: isPlaying = true; updateButtons();
AudioOnPlay ==
    /\ playQueued
    /\ playQueued' = FALSE
    /\ isPlaying' = TRUE
    /\ UpdateButtons(idx, TRUE)
    /\ UNCHANGED <<jsItems, idx, media, loaded, lastRead, restarted, cliVars, parseVars>>

\* What the 'ended', 'pause' and 'error' listeners each do: isPlaying = false;
\* updateButtons().
StopPlaying ==
    /\ isPlaying' = FALSE
    /\ UpdateButtons(idx, FALSE)
    /\ UNCHANGED <<jsItems, idx, playQueued, loaded, lastRead, restarted, cliVars, parseVars>>

\* The audio played to its end.
AudioOnEnded ==
    /\ media.state = "started" /\ ~playQueued
    /\ media' = [media EXCEPT !.state = "idle"]
    /\ StopPlaying

\* The playback was paused from outside the page (a media key).
AudioOnPause ==
    /\ media.state = "started" /\ ~playQueued
    /\ media' = [media EXCEPT !.state = "idle"]
    /\ StopPlaying

\* The audio file could not be loaded or decoded.
AudioOnError ==
    /\ media.state = "started" /\ ~playQueued
    /\ media' = [media EXCEPT !.state = "idle"]
    /\ StopPlaying

NextPlayer ==
    \/ OnLoad
    \/ ClickPrev
    \/ ClickNext
    \/ ClickReplay
    \/ KeyArrowLeft
    \/ KeyArrowRight
    \/ KeyReplay
    \/ AudioOnPlay
    \/ AudioOnEnded
    \/ AudioOnPause
    \/ AudioOnError

-----------------------------------------------------------------------------
(* The claims.                                                             *)

\* The run builds: it is not a plain --serve-only run.
RunBuilds == args.build_all \/ ~args.serve_only

\* The run looked for its input and did not find it.
InputMissing == env.input = "missing" \/ env.qdir \in {"missing", "empty"}

\* The audio of a text spoken in a voice.
AudioOf(text, voice) == [text |-> text, voice |-> voice]

\* Item k (from 1) of the list built in directory d was synthesized in this run.
Synthesized(d, k) == <<d, Mp3Name(k - 1)>> \in synthLog

\* The audio file of item k in d is the one the run found there.
Kept(d, k) ==
    /\ Mp3Name(k - 1) \in DOMAIN before.audioFiles[d]
    /\ Mp3Name(k - 1) \in DOMAIN audioFiles[d]
    /\ audioFiles[d][Mp3Name(k - 1)] = before.audioFiles[d][Mp3Name(k - 1)]

\* C1: a build without --force calls synthesis for exactly the indices of
\* its list whose NNNN.mp3 did not exist when the run started, and for no
\* other file; when build_audio last went through the same list in the same
\* directory, the build makes no synthesis call there and leaves every
\* audio file of the directory as it was.
C1_SkipExisting ==
    /\ ~args.force => \A e \in synthLog : e[2] \notin DOMAIN before.audioFiles[e[1]]
    /\ (pc = "make_index" /\ ~args.force) =>
         /\ \A k \in 1..Len(items) :
              Synthesized(outdir, k) <=> Mp3Name(k - 1) \notin DOMAIN before.audioFiles[outdir]
         /\ \A e \in synthLog :
              e[1] = outdir => \E k \in 1..Len(items) : e[2] = Mp3Name(k - 1)
         /\ before.built[outdir] = Present(items) =>
              /\ \A e \in synthLog : e[1] # outdir
              /\ audioFiles[outdir] = before.audioFiles[outdir]

\* C1's case: a second build of the same two-item list, without --force.
C1_Witness ==
    /\ pc = "make_index" /\ ~args.force
    /\ Len(items) = 2
    /\ before.built[outdir] = Present(items)

\* Every directory the run built has each item of its list synthesized in
\* this run, the file holding the audio of the item's text in the run's voice.
AllRebuilt ==
    /\ pageLog # {}
    /\ \A d \in pageLog : \A k \in 1..Len(Get(built[d])) :
         /\ Synthesized(d, k)
         /\ audioFiles[d][Mp3Name(k - 1)] = AudioOf(Get(built[d])[k], args.voice)

\* C2 as stated: whenever --force is given, with any other flags, every item
\* of the input list is synthesized again and its audio file overwritten.
C2_ForceWithAnyFlags ==
    (pc \in Ended /\ args.force /\ ~InputMissing) => AllRebuilt

\* C2 as amended: whenever --force is given in a run that builds (--build-all,
\* or no --serve-only) and finds its input, every item of each list it builds
\* is synthesized again and its audio file overwritten, whether or not the
\* file existed.
C2_ForceRebuilds ==
    /\ (pc = "make_index" /\ args.force) =>
         \A k \in 1..Len(items) :
            /\ Synthesized(outdir, k)
            /\ audioFiles[outdir][Mp3Name(k - 1)] = AudioOf(items[k], args.voice)
    /\ (pc \in Ended /\ args.force /\ RunBuilds /\ ~InputMissing) => AllRebuilt

\* C2's case: a --force build has ended over audio files that existed before.
C2_Witness ==
    /\ pc \in Ended /\ args.force /\ RunBuilds
    /\ \E d \in pageLog :
         /\ Len(Get(built[d])) >= 1
         /\ \A k \in 1..Len(Get(built[d])) : Mp3Name(k - 1) \in DOMAIN before.audioFiles[d]

\* C4: a run with --serve-only when no site has been built before exits with
\* an error, never starts the server and synthesizes no audio.
C4_ServeOnlyNoSite ==
    (pc # "idle" /\ args.serve_only /\ ~before.siteDir) =>
        /\ synthLog = {}
        /\ server = Absent
        /\ pc \in Ended => pc = "failed"

\* C5: when the input file (single build) or the questionnaires
\* directory or its .txt files (--build-all) are missing, the run exits with
\* the error, makes no synthesis call, writes no page, never starts the
\* server and leaves the site directory as it was.
C5_InputErrorLeavesSite ==
    InputMissing =>
        /\ pc = "failed"
        /\ synthLog = {} /\ pageLog = {} /\ server = Absent
        /\ <<siteDir, audioDirs, audioFiles, pages, selection>>
             = <<before.siteDir, before.audioDirs, before.audioFiles, before.pages,
                 before.selection>>

Digits == {"0", "1", "2", "3", "4", "5", "6", "7", "8", "9"}

\* The digit c as a number.
DigitValue(c) == CHOOSE d \in 0..9 : Digit(d) = c

\* ref is audio/NNNN.mp3 with NNNN the four digits of n.
IsAudioPathOf(ref, n) ==
    /\ Len(ref) = 14
    /\ SubSeq(ref, 1, 6) = <<"a", "u", "d", "i", "o", "/">>
    /\ \A j \in 7..10 : ref[j] \in Digits
    /\ 1000 * DigitValue(ref[7]) + 100 * DigitValue(ref[8]) + 10 * DigitValue(ref[9])
         + DigitValue(ref[10]) = n
    /\ SubSeq(ref, 11, 14) = <<".", "m", "p", "3">>

\* C6: entry i of every page refers to audio/<i as 4 digits>.mp3, which names
\* in the page's own audio directory the file build_audio uses for item i;
\* that file exists, and in a run that wrote the page it is the file the run
\* synthesized or the one it found and kept.
C6_AudioPathByIndex ==
    \A d \in Dirs : pages[d] # Absent =>
        LET its == PageItems(Get(pages[d])) IN
        \A k \in 1..Len(its) :
            /\ IsAudioPathOf(its[k].audio, k - 1)
            /\ Resolve(its[k].audio) = Mp3Name(k - 1)
            /\ Resolve(its[k].audio) \in DOMAIN audioFiles[d]
            /\ d \in pageLog => (Synthesized(d, k) \/ Kept(d, k))

\* C6's case: a run has written a page of two items, one file synthesized
\* and one kept.
C6_Witness ==
    /\ pc \in Ended
    /\ \E d \in pageLog :
         /\ Len(Get(pages[d])) = 2
         /\ Synthesized(d, 2) /\ ~Synthesized(d, 1)

\* The build of the run went through: the page, or with --build-all the
\* selection page, is written.
BuildSucceeded ==
    \/ ~args.build_all /\ ~args.serve_only /\ ProjectDir \in pageLog
    \/ args.build_all /\ env.template = "found"

\* The pages the run wrote, by directory and file name.
WrittenPages ==
    {<<d, "index.html">> : d \in pageLog}
        \cup (IF args.build_all /\ env.template = "found"
              THEN {<<ProjectDir, "selection.html">>} ELSE {})

\* C7: after a build that succeeds from an empty site directory, single or
\* --build-all, the run starts the server on the configured port instead of
\* exiting with an error, and the URL it opens names a page the build wrote.
C7_BuildThenServe ==
    (pc \in Ended /\ ~before.siteDir /\ BuildSucceeded) =>
        /\ pc # "failed"
        /\ server # Absent
        /\ Get(server).port = args.port
        /\ Get(server).url.port = args.port
        /\ <<ProjectDir, Get(server).url.path>> \in WrittenPages

\* C10 as stated: when a build completes, the audio file of every item of
\* the current list holds the audio of the item's current text in the voice
\* of this run, so each page entry pairs a text with the audio of that text.
C10_AudioOfCurrentText ==
    \A d \in pageLog :
        LET its == PageItems(Get(pages[d])) IN
        \A k \in 1..Len(its) :
            /\ Resolve(its[k].audio) \in DOMAIN audioFiles[d]
            /\ audioFiles[d][Resolve(its[k].audio)] = AudioOf(its[k].text, args.voice)

\* C10 as amended: when a build completes, the audio file of every item of
\* the current list exists; it holds the audio of the item's current text in
\* the voice of this run when --force was given or the file did not exist
\* when the run started, and otherwise it is the file the run found, unchanged.
C10_AudioCurrentOrKept ==
    \A d \in pageLog :
        LET its == PageItems(Get(pages[d])) IN
        \A k \in 1..Len(its) :
            LET name == Resolve(its[k].audio) IN
            /\ name \in DOMAIN audioFiles[d]
            /\ IF args.force \/ name \notin DOMAIN before.audioFiles[d]
               THEN audioFiles[d][name] = AudioOf(its[k].text, args.voice)
               ELSE audioFiles[d][name] = before.audioFiles[d][name]

\* C10's case: a build without --force has completed over a file of another
\* text, and a build has synthesized a file in the second voice.
C10_Witness ==
    \E d \in pageLog :
        LET its == PageItems(Get(pages[d])) IN
        /\ Len(its) = 2
        /\ args.voice = "en-US-GuyNeural"
        /\ Kept(d, 1) /\ audioFiles[d][Mp3Name(0)].text # its[1].text
        /\ Synthesized(d, 2)

\* A line holds a character that is not whitespace.
HasInk(line) == \E k \in 1..Len(line) : line[k] \notin Whitespace

NonEmpty(line) == line # <<>>

\* t is line without its leading and trailing whitespace.
IsTrimOf(t, line) ==
    /\ t # <<>>
    /\ t[1] \notin Whitespace /\ t[Len(t)] \notin Whitespace
    /\ \E a \in 0..Len(line) :
         /\ a + Len(t) <= Len(line)
         /\ SubSeq(line, a + 1, a + Len(t)) = t
         /\ \A j \in 1..a : line[j] \in Whitespace
         /\ \A j \in (a + Len(t) + 1)..Len(line) : line[j] \in Whitespace

\* C3 as stated: the page's item list has one entry per non-empty line of
\* the input file, in the file's order, entry i carrying the text of the
\* i-th non-empty line.
C3_NonEmptyLines ==
    ppc = "loaded" =>
        LET lines == SelectSeq(SplitLines(pfile), NonEmpty) IN
        /\ Len(jsItems) = Len(lines)
        /\ \A k \in 1..Len(lines) : jsItems[k].text = lines[k]

\* C3 as amended: the page's item list has one entry per line of the input
\* file that holds a character other than whitespace, in the file's order,
\* entry i carrying the text of the i-th such line without its leading and
\* trailing whitespace; no such line is dropped, duplicated or reordered.
C3_NonBlankLinesStripped ==
    ppc = "loaded" =>
        LET lines == SelectSeq(SplitLines(pfile), HasInk) IN
        /\ Len(jsItems) = Len(lines)
        /\ \A k \in 1..Len(lines) : IsTrimOf(jsItems[k].text, lines[k])

\* C3's case: a file of two lines with text, with whitespace to strip and a
\* character JSON escapes, has been loaded.
C3_Witness ==
    /\ ppc = "loaded"
    /\ Len(jsItems) = 2
    /\ pfile[1] \in Whitespace
    /\ \E k \in 1..Len(pfile) : pfile[k] \in {QUOTE, BACKSLASH}

\* C8: for every item list, the empty one included, idx is within the list
\* whenever playItem reads items[idx]; a prev at the first item and a next at
\* the last leave idx unchanged.
C8_IndexInRange ==
    [][ /\ lastRead' # Absent => Get(lastRead') < Len(jsItems')
        /\ ((ClickPrev \/ KeyArrowLeft) /\ idx = 0) => idx' = idx
        /\ ((ClickNext \/ KeyArrowRight) /\ idx + 1 = Len(jsItems)) => idx' = idx ]_vars

\* C9: from the moment the audio of an item is started until its ended,
\* pause or error event, no input changes idx and none restarts the audio.
C9_NavigationLocked ==
    [][media.state = "started" => (idx' = idx /\ restarted' = restarted)]_vars

-----------------------------------------------------------------------------
(* The specifications.                                                     *)

\* Runs of the command line, one after the other, on one site directory.
Init == InitCli /\ ParseOff /\ PlayerOff
Spec == Init /\ [][Next]_vars

\* One input file read, rendered and loaded.
InitOfParse == InitCli /\ InitParse /\ PlayerOff
SpecParse == InitOfParse /\ [][NextParse]_vars

\* One generated page in the browser.
InitOfPlayer == InitCli /\ ParseOff /\ InitPlayer
SpecPlayer == InitOfPlayer /\ [][NextPlayer]_vars

====
